---- MODULE Spec2Model ----
(***************************************************************************)
(* A model of qarbon's uncaught-exception reporting core:                  *)
(*   - qarbon/exceptionplugin.py: BaseExceptionPlugin.__call__/handle,      *)
(*     MultiplexExceptionPlugin.handle, LogExceptionPlugin.handle           *)
(*   - qarbon/qt/gui/exceptionwidget.py: the error formatter registry of    *)
(*     ErrorWidget (getErrorFormatters, registerErrorHandler,               *)
(*     findErrorFormatter), ErrorDialog and the message dialog plugin.      *)
(***************************************************************************)
EXTENDS Integers, Sequences, FiniteSets, TLC

VARIABLES
    pytango,        \* TRUE iff "import PyTango" succeeds in this process
    pygments,       \* TRUE iff "import pygments" succeeded (lines 71-77)
    registrations,  \* history: the registerErrorHandler calls made so far
    lastDict,       \* the dict object the last registerErrorHandler wrote to
    found,          \* the last findErrorFormatter call: query and result
    plugins,        \* the plugin objects built at start-up, by identity
    stack,          \* call stack of the dispatch in progress
    events,         \* history: what the dispatch in progress has done so far
    outcome,        \* how the last top-level call of the chain ended
    stderr,         \* what this dispatch wrote to the standard error stream
    logged,         \* the log records this dispatch emitted
    qapp,           \* QApplication.instance(): <<>> is None, or <<app>>
    MSG_BOX,        \* __MessageDialogExceptionPlugin.MSG_BOX
    shown,          \* number of times the dialog was shown by this dispatch
    ndispatch,      \* number of uncaught errors dispatched so far
    fmtcall,        \* the last direct call of a formatter's operation
    translations,   \* history: the last two translations made by setError
    panel,          \* an ErrorDialog of the application, with its panel
    built,          \* history: the last construction of an ErrorDialog
    napps,          \* history: number of QApplication objects Application made
    appcall,        \* history: the last call of Application/getApplication
    returned,       \* history: the instances Application has returned
    PROTECT_ERROR_DIALOG,   \* the module global __PROTECT_ERROR_DIALOG
    ndialogs,       \* history: ErrorDialog objects built by the plugin and
                    \* by the wrappers, and whether one was used again
    wcall,          \* the call of a protect wrapper in progress, or the last
    nprotect,       \* number of calls of protect wrappers so far
    report,         \* the last report made from the dialog's report combo
    fs,             \* the file system: the base directory and the
                    \* project directories in it
    pcall           \* history: the last call of Project.create

regVars   == <<pytango, registrations, lastDict, found>>
chainVars == <<plugins, stack, events, outcome, stderr, logged, qapp,
               MSG_BOX, shown, ndispatch>>
fmtVars   == <<pygments, fmtcall, translations, panel, built>>
appVars   == <<napps, appcall, returned>>
dlgVars   == <<PROTECT_ERROR_DIALOG, ndialogs, wcall, nprotect, report>>
projVars  == <<fs, pcall>>
vars      == <<pytango, registrations, lastDict, found, plugins, stack,
               events, outcome, stderr, logged, qapp, MSG_BOX, shown,
               ndispatch, pygments, fmtcall, translations, panel, built, napps,
               appcall, returned, PROTECT_ERROR_DIALOG, ndialogs, wcall,
               nprotect, report, fs, pcall>>

None == "None"

(***************************************************************************)
(* Bounds of the model.                                                    *)
(***************************************************************************)
MaxRegistrations == 3
MaxChildren == 2
MaxDispatch == 2
MaxProtected == 2

(***************************************************************************)
(* Error kinds: exception classes with their base class.  DevFailed exists *)
(* only where PyTango can be imported.                                     *)
(***************************************************************************)
Kinds == {"Exception", "LookupError", "IndexError", "DevFailed"}

Parent ==
    [k \in Kinds |->
        CASE k = "Exception"   -> None
          [] k = "LookupError" -> "Exception"
          [] k = "IndexError"  -> "LookupError"
          [] k = "DevFailed"   -> "Exception"]

RECURSIVE issubclass(_, _)
issubclass(a, b) ==
    IF a = b THEN TRUE
    ELSE IF Parent[a] = None THEN FALSE
    ELSE issubclass(Parent[a], b)

\* formatter classes an application registers
UserFormatters == {"FormatterA", "FormatterB"}

(***************************************************************************)
(* A dict is the sequence of its items, in insertion order.                *)
(***************************************************************************)
DictKeys(d) == {d[i].key : i \in 1..Len(d)}

DictGet(d, k) == (CHOOSE i \in 1..Len(d) : d[i].key = k)

DictSetItem(d, k, v) ==
    IF k \in DictKeys(d)
    THEN [d EXCEPT ![DictGet(d, k)] = [key |-> k, val |-> v]]
    ELSE Append(d, [key |-> k, val |-> v])

\* ErrorWidget.getErrorFormatters: a new dict on every call
getErrorFormatters ==
    IF pytango
    THEN <<[key |-> "DevFailed", val |-> "TangoErrorFormatterPlugin"]>>
    ELSE <<>>

RECURSIVE FirstMatch(_, _, _)
FirstMatch(items, i, err_type) ==
    IF i > Len(items) THEN "BaseErrorFormatterPlugin"
    ELSE IF err_type = None THEN "TypeError"
    ELSE IF issubclass(err_type, items[i].key) THEN items[i].val
    ELSE FirstMatch(items, i + 1, err_type)

\* findErrorFormatter without the issubclass test: the first entry wins
findErrorFormatterNoTest(err_type) ==
    IF getErrorFormatters = <<>> THEN "BaseErrorFormatterPlugin"
    ELSE getErrorFormatters[1].val

\* ErrorWidget.findErrorFormatter
findErrorFormatter(err_type) == FirstMatch(getErrorFormatters, 1, err_type)

\* ErrorWidget.registerErrorHandler: getErrorFormatters()[err_type] = h
RegisterErrorHandler(err_type, err_handler) ==
    /\ Len(registrations) < MaxRegistrations
    /\ err_type = "DevFailed" => pytango
    /\ lastDict' = DictSetItem(getErrorFormatters, err_type, err_handler)
    /\ registrations' = Append(registrations,
                               [key |-> err_type, val |-> err_handler])
    /\ UNCHANGED <<pytango, found>>
    /\ UNCHANGED chainVars
    /\ UNCHANGED fmtVars
    /\ UNCHANGED projVars
    /\ UNCHANGED appVars
    /\ UNCHANGED dlgVars

\* a call of ErrorWidget.findErrorFormatter(err_type)
FindErrorFormatter(err_type) ==
    /\ err_type = "DevFailed" => pytango
    /\ found' = [query |-> err_type, result |-> findErrorFormatter(err_type),
                 after |-> Len(registrations)]
    /\ UNCHANGED <<pytango, registrations, lastDict>>
    /\ UNCHANGED chainVars
    /\ UNCHANGED fmtVars
    /\ UNCHANGED projVars
    /\ UNCHANGED appVars
    /\ UNCHANGED dlgVars


(***************************************************************************)
(* Error triples (type, value, traceback) as sys.exc_info() gives them.    *)
(***************************************************************************)
NoneTriple == [type |-> None, value |-> None, tb |-> None]

Errors ==
    {[type |-> "IndexError", value |-> "list index out of range",
      tb |-> "tb1"],
     [type |-> "Exception", value |-> "Could not turn on beam!",
      tb |-> "tb2"]}

\* results a handle or a plain callable may return
Values == {"True", "False", "None", "1"}

\* Python truth value of a result
Truthy(v) == v \in {"True", "1"}

\* Python's "a or b" on the members of an error triple
Or(a, b) == IF a # None THEN a ELSE b

(***************************************************************************)
(* The plugin objects.  plugins[id] is one object; target = 0 is None.     *)
(* Kinds: "Base" BaseExceptionPlugin, "Custom" a subclass overriding       *)
(* handle, "Multiplex", "Log", "MessageDialog", and "Callable", any other  *)
(* callable excepthook given as a target or appended to a multiplexer.     *)
(***************************************************************************)
\* the level argument of LogExceptionPlugin: None when it is not given
LogLevels == {None, "ERROR"}

\* the default with the docstring's value, "[default: logging.ERROR]"
LogLevelDocumented(given) == IF given = None THEN "ERROR" ELSE given

\* LogExceptionPlugin.__init__: "level=logging.CRITICAL", self._level
LogLevel(given) == IF given = None THEN "CRITICAL" ELSE given

ChildSpecs ==
    [kind : {"Custom"}, target : {None, "Callable"}, level : {None}]
        \cup [kind : {"Log"}, target : {None, "Callable"}, level : LogLevels]
        \cup {[kind |-> "Callable", target |-> None, level |-> None]}

ChildLists == UNION {[1..n -> ChildSpecs] : n \in 0..MaxChildren}

RootKinds == {"Base", "Custom", "Log", "MessageDialog", "Multiplex"}

RootTargets == {None, "Callable", "Base"}

\* no keyword argument given
NoOptions == [title |-> None, msg |-> None, level |-> None]

Options == {NoOptions,
            [title |-> "Oops", msg |-> "Something went wrong",
             level |-> None]}

\* BaseExceptionPlugin.__init__, MultiplexExceptionPlugin.__init__ (and
\* list.append), __MessageDialogExceptionPlugin.__init__
Build(rk, rt, cs, opt) ==
    [id \in 1..(2 + 2 * Len(cs)) |->
        IF id = 1
        THEN [kind |-> rk, target |-> IF rt = None THEN 0 ELSE 2,
              children |-> [j \in 1..Len(cs) |-> 2 * j + 1],
              title |-> opt.title, msg |-> opt.msg,
              level |-> IF rk = "Log" THEN LogLevel(opt.level) ELSE None]
        ELSE IF id = 2
        THEN [kind |-> rt, target |-> 0, children |-> <<>>,
              title |-> None, msg |-> None, level |-> None]
        ELSE IF id % 2 = 1
        THEN LET c == cs[(id - 1) \div 2] IN
             [kind |-> c.kind,
              target |-> IF c.target = None THEN 0 ELSE id + 1,
              children |-> <<>>, title |-> None, msg |-> None,
              level |-> IF c.kind = "Log" THEN LogLevel(c.level) ELSE None]
        ELSE [kind |-> cs[(id - 2) \div 2].target, target |-> 0,
              children |-> <<>>, title |-> None, msg |-> None,
              level |-> None]]

Configs ==
    {Build(rk, rt, <<>>, NoOptions) :
        rk \in RootKinds \ {"Multiplex", "MessageDialog"},
        rt \in RootTargets}
    \cup {Build("Log", rt, <<>>, [NoOptions EXCEPT !.level = l]) :
            rt \in RootTargets, l \in LogLevels}
    \cup {Build("Multiplex", rt, cs, NoOptions) :
            rt \in RootTargets, cs \in ChildLists}
    \cup {Build("MessageDialog", rt, <<>>, opt) :
            rt \in RootTargets, opt \in Options}

(***************************************************************************)
(* The call stack.  A frame is one call p(args...) in progress:              *)
(*   "call"     __call__ entered, handle not yet run (line 36)             *)
(*   "iter"     in MultiplexExceptionPlugin.handle, before child i         *)
(*   "child"    waiting for child i to return (line 57)                    *)
(*   "handled"  handle has returned res (line 37)                          *)
(*   "target"   waiting for self._target(exc_info...) (line 38)              *)
(***************************************************************************)
Frame(p, args) == [p |-> p, pc |-> "call", i |-> 0, res |-> None,
                   args |-> args]

Ev(ev, p, args, val) == [ev |-> ev, p |-> p, args |-> args, val |-> val]

Running == [kind |-> "running", val |-> None]

Top == stack[Len(stack)]

Pop(stk) == SubSeq(stk, 1, Len(stk) - 1)

SetTop(stk, f) == [stk EXCEPT ![Len(stk)] = f]

\* the arguments a caller passes on: *exc_info, unchanged
PassArgs(exc_info) == exc_info

\* __call__ testing only "self._target is not None"
DelegatesAlways(result, target) == target # 0

\* BaseExceptionPlugin.__call__, line 37: "if result and self._target is
\* not None"
Delegates(result, target) == Truthy(result) /\ target # 0

\* __call__ calling the target but returning its own result
TargetReturnedOwn(top, v) == top.res

\* BaseExceptionPlugin.__call__, line 38: what the call returns when its
\* target has returned v
TargetReturned(top, v) == v

\* a loop that stays on the same element
SameChild(i) == i

\* "for target in self": the loop goes on with the next element
NextChild(i) == i + 1

\* the loop without "if not ret: return False"
ChildReturnedNoStop(top, ret) == [top EXCEPT !.pc = "iter", !.i = @ + 1]

\* MultiplexExceptionPlugin.handle, lines 57-59: child i has returned ret
ChildReturned(top, ret) ==
    IF ~Truthy(ret)
    THEN [top EXCEPT !.pc = "handled", !.res = "False"]
    ELSE [top EXCEPT !.pc = "iter", !.i = NextChild(@)]

\* the callee has returned v to the frame on top of stk
RECURSIVE Deliver(_, _)
Deliver(stk, v) ==
    IF stk = <<>>
    THEN [stk |-> <<>>, out |-> [kind |-> "return", val |-> v],
          evs |-> <<>>]
    ELSE LET top == stk[Len(stk)] IN
         IF top.pc = "target"
         THEN LET r == TargetReturned(top, v)
                  d == Deliver(Pop(stk), r)
              IN  [d EXCEPT !.evs = <<Ev("ret", top.p, top.args, r)>> \o @]
         ELSE LET f == ChildReturned(top, v) IN
              [stk |-> SetTop(stk, f), out |-> Running,
               evs |-> IF f.pc = "handled"
                       THEN <<Ev("handle", f.p, f.args, f.res)>>
                       ELSE <<>>]

\* the call on top of the stack returns v
Return(v) ==
    LET d == Deliver(Pop(stack), v) IN
    /\ stack' = d.stk
    /\ outcome' = d.out
    /\ events' = events \o <<Ev("ret", Top.p, Top.args, v)>> \o d.evs

\* handle of the call on top of the stack has returned res
Handled(res) ==
    /\ stack' = SetTop(stack, [Top EXCEPT !.pc = "handled", !.res = res])
    /\ events' = Append(events, Ev("handle", Top.p, Top.args, res))
    /\ UNCHANGED outcome

\* an exception leaves the call on top of the stack: no frame of the chain
\* has a try statement, so it leaves every frame
Raise ==
    /\ stack' = <<>>
    /\ outcome' = [kind |-> "raise", val |-> None]
    /\ events' = Append(events, Ev("raise", Top.p, Top.args, None))

AtHandle(kind) ==
    /\ stack # <<>>
    /\ Top.pc = "call"
    /\ plugins[Top.p].kind = kind


(***************************************************************************)
(* Texts.  A text is the sequence of its pieces, concatenation is \o: the  *)
(* title "Unhandled Error (IndexError)" is                                 *)
(* <<"Unhandled Error (", "IndexError", ")">>.                             *)
(***************************************************************************)
Str(s) == <<s>>

(***************************************************************************)
(* Error values.  A value is named by a string; its attributes are given   *)
(* by the operators below.  The DevFailed values carry DevError records    *)
(* in args, except the malformed ones.                                     *)
(***************************************************************************)
PlainValues == {"list index out of range", "Could not turn on beam!"}

TangoValues == {"DevFailed: one DevError", "DevFailed: two DevErrors",
                "DevFailed: no args"}

\* str(value)
ValueStr(v) == Str(v)

\* value.args: ok is FALSE for an argument that is no DevError (it has no
\* origin, reason and desc)
Args(v) ==
    CASE v = "DevFailed: one DevError" ->
            <<[ok |-> TRUE, origin |-> "right here",
               reason |-> "TangoException",
               desc |-> "A simple tango exception"]>>
      [] v = "DevFailed: two DevErrors" ->
            <<[ok |-> TRUE, origin |-> "File server.py, line 10",
               reason |-> "PyDs_Exception",
               desc |-> "DevFailed: A simple tango exception"],
              [ok |-> TRUE, origin |-> "right here",
               reason |-> "TangoException",
               desc |-> "A simple tango exception"]>>
      [] v = "DevFailed: no args" -> <<>>
      [] OTHER -> <<[ok |-> FALSE, origin |-> None, reason |-> None,
                     desc |-> v]>>

\* reason.startswith("PyDs_")
StartsWithPyDs(reason) == reason = "PyDs_Exception"

\* the result of a field producer: a text, or an exception raised
Text(t) == [raised |-> FALSE, text |-> t]

Fault == [raised |-> TRUE, text |-> <<>>]

\* traceback.format_exception_only(etype, value)
format_exception_only(etype, value) ==
    IF value = None THEN <<etype, "\n">>
    ELSE <<etype, ": ">> \o ValueStr(value) \o <<"\n">>

\* traceback.format_exception(etype, value, tb)
format_exception(etype, value, tb) ==
    (IF tb # None THEN <<"Traceback (most recent call last):\n", tb>>
     ELSE <<>>) \o format_exception_only(etype, value)

\* pygments.highlight(text, PythonTracebackLexer(), HtmlFormatter())
highlight(text) == <<"<div class=\"highlight\"><pre>">> \o text
                        \o <<"</pre></div>">>

\* HtmlFormatter().get_style_defs(), or "" without pygments
StyleDefs == IF pygments THEN <<".hll { background-color: #ffffcc }">>
             ELSE <<"">>

\* '<html><head><style type="text/css">{style}</style></head><body>'
HtmlOrig == <<"<html><head><style type=\"text/css\">">> \o StyleDefs
                \o <<"</style></head><body>">>

Pre(text) == <<"<pre>">> \o text \o <<"</pre>">>

\* toTitle reading the name of the kind without the test for None
toTitleNoNoneTest(formatter, exc_info) ==
    IF formatter = "TangoErrorFormatterPlugin" THEN Text(Str("Tango Error"))
    ELSE IF exc_info.type = None THEN Fault
    ELSE Text(<<"Unhandled Error (", exc_info.type, ")">>)

\* BaseErrorFormatterPlugin.toTitle, TangoErrorFormatterPlugin.toTitle
toTitle(formatter, exc_info) ==
    IF formatter = "TangoErrorFormatterPlugin" THEN Text(Str("Tango Error"))
    ELSE IF exc_info.type = None THEN Text(Str("Unhandled Error"))
    ELSE Text(<<"Unhandled Error (", exc_info.type, ")">>)

\* BaseErrorFormatterPlugin.toErrorHtml: format_exception_only;
\* TangoErrorFormatterPlugin.toErrorHtml: err_value.args[0].desc
toErrorHtml(formatter, exc_info) ==
    IF formatter = "TangoErrorFormatterPlugin"
    THEN IF exc_info.value = None THEN Fault
         ELSE IF Args(exc_info.value) = <<>> THEN Fault
         ELSE IF ~Args(exc_info.value)[1].ok THEN Fault
         ELSE Text(Str(Args(exc_info.value)[1].desc))
    ELSE Text(format_exception_only(exc_info.type, exc_info.value))

\* TangoErrorFormatterPlugin.toDetailedErrorHtml: one block
\* "<pre>{reason}: {desc}</pre>{origin}<hr>" for each DevError
RECURSIVE TangoBlocks(_, _)
TangoBlocks(args, i) ==
    IF i > Len(args) THEN <<>>
    ELSE LET de == args[i] IN
         Pre(<<de.reason, ": ", de.desc>>)
            \o (IF StartsWithPyDs(de.reason) /\ pygments
                THEN highlight(Str(de.origin))
                ELSE Pre(Str(de.origin)))
            \o <<"<hr>">> \o TangoBlocks(args, i + 1)

\* the detail without its pre-formatted block
DetailOfNoPre(error) == <<"<html><body>">> \o error \o <<"</body></html>">>

\* "<html><body><pre>{0}</pre></body></html>".format(error)
DetailOf(error) == <<"<html><body>">> \o Pre(error) \o <<"</body></html>">>

\* BaseErrorFormatterPlugin.toDetailedErrorHtml,
\* TangoErrorFormatterPlugin.toDetailedErrorHtml
toDetailedErrorHtml(formatter, exc_info) ==
    IF formatter = "TangoErrorFormatterPlugin"
    THEN IF exc_info.value = None THEN Fault
         ELSE IF \E i \in DOMAIN Args(exc_info.value) :
                    ~Args(exc_info.value)[i].ok THEN Fault
         ELSE Text(HtmlOrig \o TangoBlocks(Args(exc_info.value), 1)
                    \o <<"</body></html>">>)
    ELSE LET error == toErrorHtml(formatter, exc_info) IN
         IF error.raised THEN Fault ELSE Text(DetailOf(error.text))

\* the body of the origin: highlighted with pygments, a plain block without
OriginBody(exc_text) ==
    IF pygments THEN highlight(exc_text) ELSE Pre(exc_text)

\* BaseErrorFormatterPlugin.toOriginHtml,
\* TangoErrorFormatterPlugin.toOriginHtml
toOriginHtml(formatter, exc_info) ==
    Text(HtmlOrig
         \o OriginBody(format_exception(exc_info.type, exc_info.value,
                                        exc_info.tb))
         \o <<"</body></html>">>)

\* BaseErrorFormatterPlugin.translateError
translateError(formatter, exc_info) ==
    LET title    == toTitle(formatter, exc_info)
        error    == toErrorHtml(formatter, exc_info)
        detailed == toDetailedErrorHtml(formatter, exc_info)
        origin   == toOriginHtml(formatter, exc_info)
    IN  IF title.raised \/ error.raised \/ detailed.raised \/ origin.raised
        THEN [raised |-> TRUE, title |-> <<>>, error |-> <<>>,
              detailed |-> <<>>, origin |-> <<>>]
        ELSE [raised |-> FALSE, title |-> title.text, error |-> error.text,
              detailed |-> detailed.text, origin |-> origin.text]

(***************************************************************************)
(* The error panel and dialog.                                             *)
(***************************************************************************)
\* "err_type or i[0]", ... of ErrorWidget.setError
Resolve(e, inflight) ==
    [type  |-> Or(e.type, inflight.type),
     value |-> Or(e.value, inflight.value),
     tb    |-> Or(e.tb, inflight.tb)]

\* a translation that appends to the detail the panel already shows
TranslateAppending(exc_info) ==
    LET formatter == findErrorFormatter(exc_info.type)
        data == translateError(formatter, exc_info)
    IN  IF formatter = "TypeError"
        THEN [raised |-> TRUE, title |-> <<>>, error |-> <<>>,
              detailed |-> <<>>, origin |-> <<>>]
        ELSE [data EXCEPT !.detailed = panel.detailed \o @]

\* lines 578-581 of ErrorWidget.setError: find the formatter, instantiate
\* it, translate the stored error
Translate(exc_info) ==
    LET formatter == findErrorFormatter(exc_info.type) IN
    IF formatter = "TypeError"
    THEN [raised |-> TRUE, title |-> <<>>, error |-> <<>>,
          detailed |-> <<>>, origin |-> <<>>]
    ELSE translateError(formatter, exc_info)

\* ErrorWidget.setError raises: in issubclass, or in a field producer
SetErrorRaises(e, inflight) == Translate(Resolve(e, inflight)).raised

\* a dialog that keeps the window title it has
WindowTitleKept(box, title) == box.title

\* ErrorDialog.setError: self.setWindowTitle(self._panel.windowTitle())
WindowTitle(box, title) == title

\* ErrorDialog.setError: ErrorWidget.setError, then the window title.  When
\* it raises, only _exc_info has been assigned.
setError(box, e, inflight) ==
    LET exc_info == Resolve(e, inflight)
        data     == Translate(exc_info)
    IN  IF data.raised THEN [box EXCEPT !.exc_info = exc_info]
        ELSE [box EXCEPT !.exc_info = exc_info,
                         !.title = WindowTitle(box, data.title),
                         !.text = data.error,
                         !.detailed = data.detailed,
                         !.origin = data.origin]

\* ErrorWidget.__init__ raises: in its call of setError
ErrorDialogRaises(e, inflight) ==
    LET given == IF e = NoneTriple THEN inflight ELSE e IN
    given.value # None /\ SetErrorRaises(given, inflight)

\* ErrorDialog.__init__ with ErrorWidget.__init__
ErrorDialog(e, inflight) ==
    LET given == IF e = NoneTriple THEN inflight ELSE e
        blank == [exc_info |-> given, title |-> Str(""), text |-> Str(""),
                  detailed |-> Str(""), origin |-> Str(""),
                  checked |-> FALSE, visible |-> FALSE]
    IN  IF given.value # None THEN setError(blank, given, inflight)
        ELSE blank

(***************************************************************************)
(* Calls of the formatters and of setError made by an application.         *)
(***************************************************************************)
\* error triples a caller passes: any of the three may be None, and a
\* DevFailed may carry arguments that are no DevError
Triples ==
    {NoneTriple,
     [type |-> "Exception", value |-> "Could not turn on beam!",
      tb |-> "tb2"],
     [type |-> "Exception", value |-> "Could not turn on beam!",
      tb |-> None],
     [type |-> "Exception", value |-> None, tb |-> None],
     [type |-> "DevFailed", value |-> "DevFailed: two DevErrors",
      tb |-> "tb3"],
     [type |-> "DevFailed", value |-> "DevFailed: one DevError",
      tb |-> None],
     [type |-> "DevFailed", value |-> "DevFailed: no args", tb |-> "tb3"],
     [type |-> "DevFailed", value |-> "Could not turn on beam!",
      tb |-> "tb3"],
     [type |-> "DevFailed", value |-> None, tb |-> None]}

FormatterPlugins == {"BaseErrorFormatterPlugin", "TangoErrorFormatterPlugin"}

Producers == {"toTitle", "toErrorHtml", "toDetailedErrorHtml", "toOriginHtml"}

\* a field that the call did not produce
NoText == <<>>

FmtCall(op, formatter, exc_info, raised, title, error, detailed, origin) ==
    [op |-> op, formatter |-> formatter, exc_info |-> exc_info,
     raised |-> raised, title |-> title, error |-> error,
     detailed |-> detailed, origin |-> origin]

NoFmtCall == FmtCall(None, None, NoneTriple, FALSE, NoText, NoText, NoText,
                     NoText)

\* formatter().translateError(exc_info...)
TranslateError(formatter, exc_info) ==
    /\ exc_info.type = "DevFailed" => pytango
    /\ LET data == translateError(formatter, exc_info) IN
       fmtcall' = FmtCall("translateError", formatter, exc_info, data.raised,
                          data.title, data.error, data.detailed, data.origin)
    /\ UNCHANGED <<pygments, translations, panel, built>>
    /\ UNCHANGED projVars
    /\ UNCHANGED appVars
    /\ UNCHANGED dlgVars
    /\ UNCHANGED regVars
    /\ UNCHANGED chainVars

\* formatter().toTitle(exc_info...), ..., formatter().toOriginHtml(exc_info...)
ProduceField(formatter, op, exc_info) ==
    /\ exc_info.type = "DevFailed" => pytango
    /\ LET out == CASE op = "toTitle" -> toTitle(formatter, exc_info)
                    [] op = "toErrorHtml" -> toErrorHtml(formatter, exc_info)
                    [] op = "toDetailedErrorHtml" ->
                            toDetailedErrorHtml(formatter, exc_info)
                    [] op = "toOriginHtml" ->
                            toOriginHtml(formatter, exc_info)
           field(name) == IF op = name THEN out.text ELSE NoText
       IN  fmtcall' = FmtCall(op, formatter, exc_info, out.raised,
                              field("toTitle"), field("toErrorHtml"),
                              field("toDetailedErrorHtml"),
                              field("toOriginHtml"))
    /\ UNCHANGED <<pygments, translations, panel, built>>
    /\ UNCHANGED projVars
    /\ UNCHANGED appVars
    /\ UNCHANGED dlgVars
    /\ UNCHANGED regVars
    /\ UNCHANGED chainVars

\* the last two elements of a history
LastTwo(h) == IF Len(h) > 2 THEN SubSeq(h, Len(h) - 1, Len(h)) ELSE h

\* panel.setError(e...) while inflight is sys.exc_info(); the exception of
\* the translation, if any, leaves setError
SetError(e, inflight) ==
    /\ Resolve(e, inflight).type = "DevFailed" => pytango
    /\ UNCHANGED regVars
    /\ panel' = setError(panel, e, inflight)
    /\ LET exc_info == Resolve(e, inflight)
           data     == Translate(exc_info)
       IN  translations' =
               LastTwo(Append(translations,
                   [exc_info   |-> exc_info,
                    result     |-> data,
                    raised     |-> SetErrorRaises(e, inflight),
                    exc_after  |-> panel'.exc_info,
                    reg_before |-> getErrorFormatters,
                    reg_after  |-> getErrorFormatters']))
    /\ UNCHANGED <<pygments, fmtcall, built>>
    /\ UNCHANGED projVars
    /\ UNCHANGED appVars
    /\ UNCHANGED dlgVars
    /\ UNCHANGED chainVars

\* the formatter classes that ErrorDialog(e...) looks up while inflight is
\* sys.exc_info(): none when the value is None, as __init__ then leaves
\* setError out
Resolved(e, inflight) ==
    LET given == IF e = NoneTriple THEN inflight ELSE e IN
    IF given.value # None
    THEN <<findErrorFormatter(Resolve(given, inflight).type)>>
    ELSE <<>>

Built(called, e, inflight, raised, resolved, box) ==
    [called |-> called, e |-> e, inflight |-> inflight, raised |-> raised,
     resolved |-> resolved, box |-> box]

NoBuilt == Built(FALSE, NoneTriple, NoneTriple, FALSE, <<>>,
                 ErrorDialog(NoneTriple, NoneTriple))

\* panel = ErrorDialog(e...) while inflight is sys.exc_info(); when the
\* constructor raises the application keeps the dialog it had
Construct(e, inflight) ==
    /\ LET given == IF e = NoneTriple THEN inflight ELSE e IN
       Resolve(given, inflight).type = "DevFailed" => pytango
    /\ inflight.type = "DevFailed" => pytango
    /\ LET raised == ErrorDialogRaises(e, inflight)
           box    == ErrorDialog(e, inflight)
       IN  /\ built' = Built(TRUE, e, inflight, raised,
                             Resolved(e, inflight), box)
           /\ panel' = IF raised THEN panel ELSE box
    /\ UNCHANGED <<pygments, fmtcall, translations>>
    /\ UNCHANGED projVars
    /\ UNCHANGED appVars
    /\ UNCHANGED dlgVars
    /\ UNCHANGED regVars
    /\ UNCHANGED chainVars

(***************************************************************************)
(* qarbon.qt.gui.application.  A QApplication is a record of its argv and  *)
(* its four names; QApplication.instance() is the variable qapp.           *)
(***************************************************************************)
\* a QApplication made by QtGui.QApplication(argv) outside Application
ForeignApp == [id |-> 0, argv |-> "sys.argv", applicationName |-> "",
               applicationVersion |-> "", organizationName |-> "",
               organizationDomain |-> ""]

\* argv as a caller gives it: not given, an empty list, a list of arguments
Argvs == {None, "[]", "['demo', '-style', 'plastique']"}

\* keyword arguments: None is a key that is not given
Kwargs ==
    [init_logging : {None, "True"},
     init_application : {None, "False"},
     init_organization : {None, "False"},
     application_name : {None, "Qarbon demo"},
     application_version : {None},
     organization_name : {None, "ESRF"},
     organization_domain : {None}]

NoKwargs == [init_logging |-> None, init_application |-> None,
             init_organization |-> None, application_name |-> None,
             application_version |-> None, organization_name |-> None,
             organization_domain |-> None]

\* kwargs.get(key, default)
KwGet(value, default) == IF value = None THEN default ELSE value

\* Application without its test "if app is None"
NoInstance == <<>>

\* QtGui.QApplication.instance()
Instance == qapp

\* Application(argv, kwargs): the application it returns, and what it did
Application(argv, kwargs) ==
    LET init_logging == KwGet(kwargs.init_logging, "False")
        init_application == KwGet(kwargs.init_application, "True")
        init_organization == KwGet(kwargs.init_organization, "True")
        app == [id |-> napps + 1,
                argv |-> IF argv = None THEN "sys.argv" ELSE argv,
                applicationName |->
                    IF Truthy(init_application)
                    THEN KwGet(kwargs.application_name,
                               "config.APPLICATION_NAME")
                    ELSE "",
                applicationVersion |->
                    IF Truthy(init_application)
                    THEN KwGet(kwargs.application_version,
                               "config.APPLICATION_VERSION")
                    ELSE "",
                organizationName |->
                    IF Truthy(init_organization)
                    THEN KwGet(kwargs.organization_name,
                               "config.ORGANIZATION_NAME")
                    ELSE "",
                organizationDomain |->
                    IF Truthy(init_organization)
                    THEN KwGet(kwargs.organization_domain,
                               "config.ORGANIZATION_DOMAIN")
                    ELSE ""]
    IN  IF Instance = <<>>
        THEN [app |-> <<app>>, created |-> TRUE, info |-> FALSE,
              loginit |-> Truthy(init_logging)]
        ELSE [app |-> Instance, created |-> FALSE,
              info |-> argv \notin {None, "[]"},
              loginit |-> Truthy(init_logging)]

\* a call fn(argv, kwargs) of Application, or of getApplication, which
\* returns Application(argv=argv, **properties)
CallApplication(fn, argv, kwargs) ==
    LET r == Application(argv, kwargs) IN
    /\ qapp' = r.app
    /\ napps' = IF r.created THEN napps + 1 ELSE napps
    /\ appcall' = [fn |-> fn, argv |-> argv, kwargs |-> kwargs,
                   before |-> qapp, app |-> r.app, created |-> r.created,
                   info |-> r.info, loginit |-> r.loginit]
    /\ returned' = returned \cup {r.app[1].id}

NoAppCall == [fn |-> None, argv |-> None, kwargs |-> NoKwargs,
              before |-> <<>>, app |-> <<>>, created |-> FALSE,
              info |-> FALSE, loginit |-> FALSE]

\* application code calls Application or getApplication
ApplicationCalled(fn, argv, kwargs) ==
    /\ CallApplication(fn, argv, kwargs)
    /\ UNCHANGED <<plugins, stack, events, outcome, stderr, logged, MSG_BOX,
                   shown, ndispatch>>
    /\ UNCHANGED regVars
    /\ UNCHANGED fmtVars
    /\ UNCHANGED projVars
    /\ UNCHANGED dlgVars

(***************************************************************************)
(* The runtime hands an uncaught error to the installed chain: plugin 1.   *)
(***************************************************************************)
Dispatch(e) ==
    /\ stack = <<>>
    /\ ndispatch < MaxDispatch
    /\ stack' = <<Frame(1, e)>>
    /\ events' = <<Ev("call", 1, e, None)>>
    /\ outcome' = Running
    /\ stderr' = <<>>
    /\ logged' = <<>>
    /\ shown' = 0
    /\ ndispatch' = ndispatch + 1
    /\ UNCHANGED <<plugins, qapp, MSG_BOX>>
    /\ UNCHANGED regVars
    /\ UNCHANGED fmtVars
    /\ UNCHANGED projVars
    /\ UNCHANGED appVars
    /\ UNCHANGED dlgVars

\* BaseExceptionPlugin.handle: sys.__excepthook__, return True
HandleBase ==
    /\ AtHandle("Base")
    /\ stderr' = Append(stderr, [what |-> "traceback", args |-> Top.args])
    /\ Handled("True")
    /\ UNCHANGED <<plugins, logged, qapp, MSG_BOX, shown, ndispatch>>
    /\ UNCHANGED regVars
    /\ UNCHANGED fmtVars
    /\ UNCHANGED projVars
    /\ UNCHANGED appVars
    /\ UNCHANGED dlgVars

\* LogExceptionPlugin.handle: self._log(self._level, "Uncaught exception:",
\* exc_info=exc_info), return True
HandleLog ==
    /\ AtHandle("Log")
    /\ logged' = Append(logged, [p |-> Top.p, level |-> plugins[Top.p].level,
                                 msg |-> "Uncaught exception:",
                                 exc_info |-> Top.args])
    /\ Handled("True")
    /\ UNCHANGED <<plugins, stderr, qapp, MSG_BOX, shown, ndispatch>>
    /\ UNCHANGED regVars
    /\ UNCHANGED fmtVars
    /\ UNCHANGED projVars
    /\ UNCHANGED appVars
    /\ UNCHANGED dlgVars

\* handle of a user subclass returns v
HandleCustom(v) ==
    /\ AtHandle("Custom")
    /\ Handled(v)
    /\ UNCHANGED <<plugins, stderr, logged, qapp, MSG_BOX, shown, ndispatch>>
    /\ UNCHANGED regVars
    /\ UNCHANGED fmtVars
    /\ UNCHANGED projVars
    /\ UNCHANGED appVars
    /\ UNCHANGED dlgVars

\* handle of a user subclass raises
HandleRaises ==
    /\ AtHandle("Custom")
    /\ Raise
    /\ UNCHANGED <<plugins, stderr, logged, qapp, MSG_BOX, shown, ndispatch>>
    /\ UNCHANGED regVars
    /\ UNCHANGED fmtVars
    /\ UNCHANGED projVars
    /\ UNCHANGED appVars
    /\ UNCHANGED dlgVars

\* a plain callable returns v
CallableReturns(v) ==
    /\ AtHandle("Callable")
    /\ Return(v)
    /\ UNCHANGED <<plugins, stderr, logged, qapp, MSG_BOX, shown, ndispatch>>
    /\ UNCHANGED regVars
    /\ UNCHANGED fmtVars
    /\ UNCHANGED projVars
    /\ UNCHANGED appVars
    /\ UNCHANGED dlgVars

\* a plain callable raises
CallableRaises ==
    /\ AtHandle("Callable")
    /\ Raise
    /\ UNCHANGED <<plugins, stderr, logged, qapp, MSG_BOX, shown, ndispatch>>
    /\ UNCHANGED regVars
    /\ UNCHANGED fmtVars
    /\ UNCHANGED projVars
    /\ UNCHANGED appVars
    /\ UNCHANGED dlgVars

\* MultiplexExceptionPlugin.handle: entering the loop
HandleMultiplex ==
    /\ AtHandle("Multiplex")
    /\ stack' = SetTop(stack, [Top EXCEPT !.pc = "iter", !.i = 1])
    /\ UNCHANGED <<events, outcome>>
    /\ UNCHANGED <<plugins, stderr, logged, qapp, MSG_BOX, shown, ndispatch>>
    /\ UNCHANGED regVars
    /\ UNCHANGED fmtVars
    /\ UNCHANGED projVars
    /\ UNCHANGED appVars
    /\ UNCHANGED dlgVars

\* MultiplexExceptionPlugin.handle: ret = target(exc_info...)
MultiplexCallChild ==
    /\ stack # <<>>
    /\ Top.pc = "iter"
    /\ Top.i <= Len(plugins[Top.p].children)
    /\ LET child == plugins[Top.p].children[Top.i] IN
       /\ stack' = Append(SetTop(stack, [Top EXCEPT !.pc = "child"]),
                          Frame(child, PassArgs(Top.args)))
       /\ events' = Append(events,
                           Ev("call", child, PassArgs(Top.args), None))
    /\ UNCHANGED outcome
    /\ UNCHANGED <<plugins, stderr, logged, qapp, MSG_BOX, shown, ndispatch>>
    /\ UNCHANGED regVars
    /\ UNCHANGED fmtVars
    /\ UNCHANGED projVars
    /\ UNCHANGED appVars
    /\ UNCHANGED dlgVars

\* a loop that leaves the last child out
LoopOverBeforeLast(i, children) == i >= Len(children)

\* "for target in self:" has no element left before iteration i
LoopOver(i, children) == i > Len(children)

\* MultiplexExceptionPlugin.handle: the loop is over, return True
MultiplexReturnTrue ==
    /\ stack # <<>>
    /\ Top.pc = "iter"
    /\ LoopOver(Top.i, plugins[Top.p].children)
    /\ Handled("True")
    /\ UNCHANGED <<plugins, stderr, logged, qapp, MSG_BOX, shown, ndispatch>>
    /\ UNCHANGED regVars
    /\ UNCHANGED fmtVars
    /\ UNCHANGED projVars
    /\ UNCHANGED appVars
    /\ UNCHANGED dlgVars

\* the check box is never looked at
CheckedNever(box) == FALSE

\* "if box.panel().checkBoxState() == QtCore.Qt.Checked: return"
Checked(box) == box.checked

\* the shared dialog is never found: every error builds a dialog
CurrentBoxNone(shared) == <<>>

\* "box = self.__class__.MSG_BOX", "box = __PROTECT_ERROR_DIALOG"
CurrentBox(shared) == shared

\* __MessageDialogExceptionPlugin.handle with _getMessageBox.  MSG_BOX is
\* assigned after ErrorDialog(...) has returned: when the constructor
\* raises, no dialog is kept.
HandleMessageDialog ==
    /\ AtHandle("MessageDialog")
    /\ CallApplication("Application", None, NoKwargs)
    /\ LET new == CurrentBox(MSG_BOX) = <<>>
           msgbox == IF new THEN ErrorDialog(Top.args, NoneTriple)
                     ELSE setError(MSG_BOX[1], Top.args, NoneTriple)
           raises == IF new THEN ErrorDialogRaises(Top.args, NoneTriple)
                     ELSE SetErrorRaises(Top.args, NoneTriple)
           title == plugins[Top.p].title
           msg   == plugins[Top.p].msg
       IN  IF Application(None, NoKwargs).app = <<>>
           THEN /\ Handled("None")
                /\ UNCHANGED <<MSG_BOX, shown, ndialogs>>
           ELSE IF raises
           THEN /\ Raise
                /\ MSG_BOX' = IF new THEN MSG_BOX ELSE <<msgbox>>
                /\ UNCHANGED <<shown, ndialogs>>
           ELSE /\ ndialogs' = IF new
                               THEN [ndialogs EXCEPT !.plugin = @ + 1]
                               ELSE [ndialogs EXCEPT !.plugin_reused = TRUE]
                /\ IF Checked(msgbox)
                   THEN /\ MSG_BOX' = <<msgbox>>
                        /\ Handled("None")
                        /\ UNCHANGED shown
                   ELSE /\ MSG_BOX' = <<[msgbox EXCEPT
                              !.title = IF title # None THEN Str(title)
                                        ELSE @,
                              !.text = IF msg # None THEN Str(msg) ELSE @,
                              !.visible = TRUE]>>
                        /\ shown' = shown + 1
                        /\ Handled("True")
    /\ UNCHANGED <<plugins, stderr, logged, ndispatch>>
    /\ UNCHANGED <<PROTECT_ERROR_DIALOG, wcall, nprotect, report>>
    /\ UNCHANGED regVars
    /\ UNCHANGED fmtVars
    /\ UNCHANGED projVars

\* BaseExceptionPlugin.__call__: return self._target(exc_info...)
CallTarget ==
    /\ stack # <<>>
    /\ Top.pc = "handled"
    /\ Delegates(Top.res, plugins[Top.p].target)
    /\ LET target == plugins[Top.p].target IN
       /\ stack' = Append(SetTop(stack, [Top EXCEPT !.pc = "target"]),
                          Frame(target, PassArgs(Top.args)))
       /\ events' = Append(events,
                           Ev("call", target, PassArgs(Top.args), None))
    /\ UNCHANGED outcome
    /\ UNCHANGED <<plugins, stderr, logged, qapp, MSG_BOX, shown, ndispatch>>
    /\ UNCHANGED regVars
    /\ UNCHANGED fmtVars
    /\ UNCHANGED projVars
    /\ UNCHANGED appVars
    /\ UNCHANGED dlgVars

\* BaseExceptionPlugin.__call__: return result
ReturnResult ==
    /\ stack # <<>>
    /\ Top.pc = "handled"
    /\ ~Delegates(Top.res, plugins[Top.p].target)
    /\ Return(Top.res)
    /\ UNCHANGED <<plugins, stderr, logged, qapp, MSG_BOX, shown, ndispatch>>
    /\ UNCHANGED regVars
    /\ UNCHANGED fmtVars
    /\ UNCHANGED projVars
    /\ UNCHANGED appVars
    /\ UNCHANGED dlgVars

\* ErrorWidget.setCheckBoxState on the panel of the shared dialog
SetCheckBoxState(state) ==
    /\ stack = <<>>
    /\ MSG_BOX # <<>>
    /\ MSG_BOX[1].checked # state
    /\ MSG_BOX' = <<[MSG_BOX[1] EXCEPT !.checked = state]>>
    /\ UNCHANGED <<plugins, stack, events, outcome, stderr, logged, qapp,
                   shown, ndispatch>>
    /\ UNCHANGED regVars
    /\ UNCHANGED fmtVars
    /\ UNCHANGED projVars
    /\ UNCHANGED appVars
    /\ UNCHANGED dlgVars

\* the user accepts the dialog: buttonBox.accepted is connected to accept
Accept ==
    /\ stack = <<>>
    /\ MSG_BOX # <<>>
    /\ MSG_BOX[1].visible
    /\ MSG_BOX' = <<[MSG_BOX[1] EXCEPT !.visible = FALSE]>>
    /\ UNCHANGED <<plugins, stack, events, outcome, stderr, logged, qapp,
                   shown, ndispatch>>
    /\ UNCHANGED regVars
    /\ UNCHANGED fmtVars
    /\ UNCHANGED projVars
    /\ UNCHANGED appVars
    /\ UNCHANGED dlgVars

(***************************************************************************)
(* protect: the wrapper of a protected function, and the dialog shared by  *)
(* all wrappers.                                                           *)
(***************************************************************************)
\* the DevFailed errors a wrapped function raises where PyTango exists: one
\* as Tango raises them, one built with no DevError
TangoErrors ==
    {[type |-> "DevFailed", value |-> "DevFailed: two DevErrors",
      tb |-> "tb3"],
     [type |-> "DevFailed", value |-> "DevFailed: no args", tb |-> "tb3"]}

\* protect(obj=None, title=None, msg=None, async=False, re_throw=False)
DefaultProtect == [title |-> None, msg |-> None, async |-> FALSE,
                   re_throw |-> FALSE]

\* protect(title="Oops", msg="Something went wrong", async=True)
TitledProtect == [title |-> "Oops", msg |-> "Something went wrong",
                  async |-> TRUE, re_throw |-> FALSE]

ProtectOptions ==
    {[title |-> o.title, msg |-> o.msg, async |-> a, re_throw |-> r] :
        o \in Options, a \in BOOLEAN, r \in BOOLEAN}

\* what a wrapped function returns
Results == {"None", "1"}

WCall(opt, pc, e, kind, val, displayed) ==
    [opt |-> opt, pc |-> pc, e |-> e, kind |-> kind, val |-> val,
     displayed |-> displayed]

NoWCall == WCall(DefaultProtect, "idle", NoneTriple, "none", None, FALSE)

\* wrapper, lines 796-797: after the dialog, "if re_throw: raise", else the
\* wrapper falls off its end and returns None
AfterDialog(opt, e, displayed) ==
    IF opt.re_throw
    THEN WCall(opt, "done", e, "raise", e.value, displayed)
    ELSE WCall(opt, "done", e, "return", None, displayed)

\* wrapper: obj(args...) returns v, and so does the wrapper
ProtectedReturns(opt, v) ==
    /\ wcall.pc # "exec"
    /\ nprotect < MaxProtected
    /\ nprotect' = nprotect + 1
    /\ wcall' = WCall(opt, "done", NoneTriple, "return", v, FALSE)
    /\ UNCHANGED <<PROTECT_ERROR_DIALOG, ndialogs, report>>
    /\ UNCHANGED regVars
    /\ UNCHANGED chainVars
    /\ UNCHANGED fmtVars
    /\ UNCHANGED projVars
    /\ UNCHANGED appVars

\* wrapper: obj(args...) raises e; the except clause with
\* _ProtectErrorDialog(sys.exc_info()...).  An exception of ErrorDialog(...)
\* or of setError leaves the wrapper.
ProtectedRaises(opt, e) ==
    /\ wcall.pc # "exec"
    /\ nprotect < MaxProtected
    /\ e.type = "DevFailed" => pytango
    /\ nprotect' = nprotect + 1
    /\ LET new == CurrentBox(PROTECT_ERROR_DIALOG) = <<>>
           box == IF new THEN ErrorDialog(e, e)
                  ELSE setError(PROTECT_ERROR_DIALOG[1], e, e)
           raises == IF new THEN ErrorDialogRaises(e, e)
                     ELSE SetErrorRaises(e, e)
       IN  IF raises
           THEN /\ PROTECT_ERROR_DIALOG' = IF new THEN PROTECT_ERROR_DIALOG
                                           ELSE <<box>>
                /\ wcall' = WCall(opt, "done", e, "raise", "fault", FALSE)
                /\ UNCHANGED ndialogs
           ELSE /\ ndialogs' = IF new
                               THEN [ndialogs EXCEPT !.protect = @ + 1]
                               ELSE [ndialogs EXCEPT !.protect_reused = TRUE]
                /\ IF Checked(box)
                   THEN /\ PROTECT_ERROR_DIALOG' = <<box>>
                        /\ wcall' = WCall(opt, "done", e, "return", None,
                                          FALSE)
                   ELSE /\ PROTECT_ERROR_DIALOG' = <<[box EXCEPT
                              !.title = IF opt.title # None
                                        THEN Str(opt.title) ELSE @,
                              !.text = IF opt.msg # None THEN Str(opt.msg)
                                       ELSE @,
                              !.visible = TRUE]>>
                        /\ wcall' = IF opt.async
                                    THEN AfterDialog(opt, e, TRUE)
                                    ELSE WCall(opt, "exec", e, "none", None,
                                               TRUE)
    /\ UNCHANGED report
    /\ UNCHANGED regVars
    /\ UNCHANGED chainVars
    /\ UNCHANGED fmtVars
    /\ UNCHANGED projVars
    /\ UNCHANGED appVars

\* the user closes the dialog that a wrapper runs with exec_(): exec_
\* returns and the wrapper goes on
ProtectExecReturns ==
    /\ wcall.pc = "exec"
    /\ PROTECT_ERROR_DIALOG' =
            <<[PROTECT_ERROR_DIALOG[1] EXCEPT !.visible = FALSE]>>
    /\ wcall' = AfterDialog(wcall.opt, wcall.e, TRUE)
    /\ UNCHANGED <<ndialogs, nprotect, report>>
    /\ UNCHANGED regVars
    /\ UNCHANGED chainVars
    /\ UNCHANGED fmtVars
    /\ UNCHANGED projVars
    /\ UNCHANGED appVars

\* the user closes the dialog that a wrapper has shown with show()
ProtectAccept ==
    /\ wcall.pc # "exec"
    /\ PROTECT_ERROR_DIALOG # <<>>
    /\ PROTECT_ERROR_DIALOG[1].visible
    /\ PROTECT_ERROR_DIALOG' =
            <<[PROTECT_ERROR_DIALOG[1] EXCEPT !.visible = FALSE]>>
    /\ UNCHANGED <<ndialogs, wcall, nprotect, report>>
    /\ UNCHANGED regVars
    /\ UNCHANGED chainVars
    /\ UNCHANGED fmtVars
    /\ UNCHANGED projVars
    /\ UNCHANGED appVars

\* ErrorWidget.setCheckBoxState on the panel of the wrappers' dialog
ProtectSetCheckBoxState(state) ==
    /\ PROTECT_ERROR_DIALOG # <<>>
    /\ PROTECT_ERROR_DIALOG[1].checked # state
    /\ PROTECT_ERROR_DIALOG' =
            <<[PROTECT_ERROR_DIALOG[1] EXCEPT !.checked = state]>>
    /\ UNCHANGED <<ndialogs, wcall, nprotect, report>>
    /\ UNCHANGED regVars
    /\ UNCHANGED chainVars
    /\ UNCHANGED fmtVars
    /\ UNCHANGED projVars
    /\ UNCHANGED appVars

(***************************************************************************)
(* Reports.  The report combo of a visible dialog calls                    *)
(* ErrorWidget._onReportTriggered, which builds the plugin chosen and      *)
(* calls its report.                                                       *)
(***************************************************************************)
\* get_report_handlers: the subclasses of BaseReportPlugin
ReportHandlers == {"ClipboardReportPlugin", "SMTPReportPlugin"}

Report(handler, message, accepted, fault, infos, warnings, raised) ==
    [handler |-> handler, message |-> message, accepted |-> accepted,
     fault |-> fault, infos |-> infos, warnings |-> warnings,
     raised |-> raised]

NoReport == Report(None, <<>>, FALSE, FALSE, <<>>, <<>>, FALSE)

\* ClipboardReportPlugin.report: clipboard.setText(message), then the
\* message box "Done!"; fault: setText raises
ClipboardReport(message, fault) ==
    IF fault
    THEN Report("ClipboardReportPlugin", message, TRUE, TRUE, <<>>, <<>>,
                TRUE)
    ELSE Report("ClipboardReportPlugin", message, TRUE, FALSE,
                <<"Message Copied to clipboard">>, <<>>, FALSE)

\* SMTPReportPlugin.report: the compose dialog, then sendMail in a try
\* statement; fault: sendMail raises
SMTPReport(message, accepted, fault) ==
    IF ~accepted
    THEN Report("SMTPReportPlugin", message, FALSE, FALSE, <<>>, <<>>, FALSE)
    ELSE IF fault
    THEN Report("SMTPReportPlugin", message, TRUE, TRUE, <<>>,
                <<"Failed to send email">>, FALSE)
    ELSE Report("SMTPReportPlugin", message, TRUE, FALSE,
                <<"Email has been sent!">>, <<>>, FALSE)

\* ErrorWidget._onReportTriggered on the panel of the wrappers' dialog
OnReportTriggered(handler, accepted, fault) ==
    /\ PROTECT_ERROR_DIALOG # <<>>
    /\ PROTECT_ERROR_DIALOG[1].visible
    /\ handler = "ClipboardReportPlugin" => accepted
    /\ fault => accepted
    /\ CallApplication("Application", None, NoKwargs)
    /\ LET box == PROTECT_ERROR_DIALOG[1]
           message == box.text \o box.detailed \o box.origin
       IN  report' = IF handler = "ClipboardReportPlugin"
                     THEN ClipboardReport(message, fault)
                     ELSE SMTPReport(message, accepted, fault)
    /\ UNCHANGED <<PROTECT_ERROR_DIALOG, ndialogs, wcall, nprotect>>
    /\ UNCHANGED <<plugins, stack, events, outcome, stderr, logged, MSG_BOX,
                   shown, ndispatch>>
    /\ UNCHANGED regVars
    /\ UNCHANGED fmtVars
    /\ UNCHANGED projVars

(***************************************************************************)
(* qarbon.project.  The file system is the base directory and the project  *)
(* directories in it; a directory that exists has a set of entries.  A     *)
(* name is the sequence of its characters.                                 *)
(***************************************************************************)
ProjectNames ==
    {<<"a">>, <<"a", " ", "b">>, <<"a", "_", "b">>, <<"a", "\t", "b">>,
     <<"a", "\n", "b">>}

\* clearName: blank, newline and tab become "_"
clearName(name) ==
    [i \in DOMAIN name |->
        IF name[i] \in {" ", "\n", "\t"} THEN "_" ELSE name[i]]

\* Project.project_directory, under the base directory
Directories == {clearName(n) : n \in ProjectNames}

Missing == [exists |-> FALSE, entries |-> {}]

Dir(entries) == [exists |-> TRUE, entries |-> entries]

\* the file systems a call of create may find: without the base directory,
\* or with it and any project directory missing, empty, or holding a file
FileSystems ==
    {f \in [base : BOOLEAN,
            dirs : [Directories -> {Missing, Dir({}), Dir({"notes.txt"})}]] :
        ~f.base => \A d \in Directories : f.dirs[d] = Missing}

\* where a call of the operating system fails: nowhere, in os.makedirs of
\* the project directory before anything was made or after the base
\* directory was made, in os.makedirs of "doc" or of "scripts"
Faults == {None, "makedirs", "makedirs after base", "doc", "scripts"}

Raised(f) == [fs |-> f, raised |-> TRUE]

\* Project._create.  os.makedirs raises when the directory exists.  Line 93
\* raises in every call: inside the class the name __init_template is the
\* private name _Project__init_template, which the module does not define.
_create(f, dir, fault) ==
    LET made    == [f EXCEPT !.base = TRUE, !.dirs[dir] = Dir({})]
        doc     == [made EXCEPT !.dirs[dir] = Dir({"doc"})]
        scripts == [made EXCEPT !.dirs[dir] = Dir({"doc", "scripts"})]
    IN  IF f.dirs[dir].exists THEN Raised(f)
        ELSE IF fault = "makedirs" THEN Raised(f)
        ELSE IF fault = "makedirs after base"
        THEN Raised([f EXCEPT !.base = TRUE])
        ELSE IF fault = "doc" THEN Raised(made)
        ELSE IF fault = "scripts" THEN Raised(doc)
        ELSE Raised(scripts)

\* shutil.rmtree
rmtree(f, dir) == [f EXCEPT !.dirs[dir] = Missing]

\* Project.create: the rollback of the except clause, then "raise"
create(f, dir, fault) ==
    LET r == _create(f, dir, fault) IN
    IF r.raised
    THEN [r EXCEPT !.fs = IF r.fs.dirs[dir].exists THEN rmtree(r.fs, dir)
                          ELSE r.fs]
    ELSE r

PCall(called, name, fault, before, raised) ==
    [called |-> called, name |-> name, fault |-> fault, before |-> before,
     raised |-> raised]

\* Project(name, base_directory=base).create()
Create(name, fault) ==
    /\ fault = "makedirs after base" => ~fs.base
    /\ LET r == create(fs, clearName(name), fault) IN
       /\ fs' = r.fs
       /\ pcall' = PCall(TRUE, name, fault, fs, r.raised)
    /\ UNCHANGED regVars
    /\ UNCHANGED chainVars
    /\ UNCHANGED fmtVars
    /\ UNCHANGED appVars
    /\ UNCHANGED dlgVars

(***************************************************************************)
(* Specifications.                                                         *)
(***************************************************************************)
NoCall == [query |-> None, result |-> None, after |-> 0]

Idle == [kind |-> "none", val |-> None]

InitChainVars ==
    /\ stack = <<>>
    /\ events = <<>>
    /\ outcome = Idle
    /\ stderr = <<>>
    /\ logged = <<>>
    /\ qapp \in {<<>>, <<ForeignApp>>}
    /\ napps = 0
    /\ appcall = NoAppCall
    /\ returned = {}
    /\ MSG_BOX = <<>>
    /\ shown = 0
    /\ ndispatch = 0

InitRegVars ==
    /\ pytango \in BOOLEAN
    /\ registrations = <<>>
    /\ lastDict = <<>>
    /\ found = NoCall

InitDlgVars ==
    /\ PROTECT_ERROR_DIALOG = <<>>
    /\ ndialogs = [plugin |-> 0, protect |-> 0, plugin_reused |-> FALSE,
                   protect_reused |-> FALSE]
    /\ wcall = NoWCall
    /\ nprotect = 0
    /\ report = NoReport

InitProjVars ==
    /\ fs = [base |-> FALSE, dirs |-> [d \in Directories |-> Missing]]
    /\ pcall = PCall(FALSE, <<>>, None, fs, FALSE)

InitFmtVars ==
    /\ fmtcall = NoFmtCall
    /\ translations = <<>>
    /\ panel = ErrorDialog(NoneTriple, NoneTriple)
    /\ built = NoBuilt

\* the formatter registry: registrations and look-ups
InitRegistry ==
    /\ InitRegVars
    /\ InitChainVars
    /\ pygments = FALSE
    /\ InitFmtVars
    /\ InitProjVars
    /\ InitDlgVars
    /\ plugins = Build("Base", None, <<>>, NoOptions)

NextRegistry ==
    \/ \E k \in Kinds, f \in UserFormatters :
            RegisterErrorHandler(k, f)
    \/ \E k \in Kinds \cup {None} : FindErrorFormatter(k)

SpecRegistry == InitRegistry /\ [][NextRegistry]_vars

\* the plugin chain: dispatching uncaught errors
InitChain ==
    /\ InitRegVars
    /\ InitChainVars
    /\ pygments = FALSE
    /\ InitFmtVars
    /\ InitProjVars
    /\ InitDlgVars
    /\ plugins \in Configs

NextChain ==
    \/ \E e \in Errors : Dispatch(e)
    \/ HandleBase
    \/ HandleLog
    \/ \E v \in Values : HandleCustom(v)
    \/ HandleRaises
    \/ \E v \in Values : CallableReturns(v)
    \/ CallableRaises
    \/ HandleMultiplex
    \/ MultiplexCallChild
    \/ MultiplexReturnTrue
    \/ HandleMessageDialog
    \/ CallTarget
    \/ ReturnResult
    \/ \E state \in BOOLEAN : SetCheckBoxState(state)
    \/ Accept

Spec == InitChain /\ [][NextChain]_vars

\* the plugin chain, where a call in progress goes on: the interpreter
\* runs the call of the chain to its end, in one thread
ChainStep ==
    \/ HandleBase
    \/ HandleLog
    \/ \E v \in Values : HandleCustom(v)
    \/ HandleRaises
    \/ \E v \in Values : CallableReturns(v)
    \/ CallableRaises
    \/ HandleMultiplex
    \/ MultiplexCallChild
    \/ MultiplexReturnTrue
    \/ HandleMessageDialog
    \/ CallTarget
    \/ ReturnResult

\* the chains whose multiplexers have custom plugins and plain callables
\* as children
InitTerminates ==
    /\ InitChain
    /\ \A p \in DOMAIN plugins : p > 2 => plugins[p].kind # "Log"

SpecTerminates ==
    InitTerminates /\ [][NextChain]_vars /\ WF_vars(ChainStep)

\* the error formatters: direct calls of their operations
InitFormat ==
    /\ InitRegVars
    /\ InitChainVars
    /\ plugins = Build("Base", None, <<>>, NoOptions)
    /\ pygments \in BOOLEAN
    /\ InitFmtVars
    /\ InitProjVars
    /\ InitDlgVars

NextFormat ==
    \/ \E f \in FormatterPlugins, e \in Triples : TranslateError(f, e)
    \/ \E f \in FormatterPlugins, op \in Producers, e \in Triples :
            ProduceField(f, op, e)

SpecFormat == InitFormat /\ [][NextFormat]_vars

\* an error panel: the translations made by its setError
NextSetError ==
    \E e \in Triples, inflight \in {NoneTriple} \cup Errors :
        SetError(e, inflight)

SpecSetError == InitFormat /\ [][NextSetError]_vars

\* an error dialog: its construction with and without an error in flight
NextConstruct ==
    \E e \in Triples, inflight \in {NoneTriple} \cup Errors \cup TangoErrors :
        Construct(e, inflight)

SpecConstruct == InitFormat /\ [][NextConstruct]_vars

\* projects: calls of Project.create on the file systems it may find
InitProject ==
    /\ InitRegVars
    /\ InitChainVars
    /\ plugins = Build("Base", None, <<>>, NoOptions)
    /\ pygments = FALSE
    /\ InitFmtVars
    /\ InitDlgVars
    /\ fs \in FileSystems
    /\ pcall = PCall(FALSE, <<>>, None, fs, FALSE)

NextProject == \E name \in ProjectNames, fault \in Faults : Create(name, fault)

SpecProject == InitProject /\ [][NextProject]_vars

\* the application object: calls of Application and getApplication
InitApp ==
    /\ InitRegVars
    /\ InitChainVars
    /\ plugins = Build("Base", None, <<>>, NoOptions)
    /\ pygments = FALSE
    /\ InitFmtVars
    /\ InitProjVars
    /\ InitDlgVars

NextApp ==
    \E fn \in {"Application", "getApplication"}, argv \in Argvs,
       kwargs \in Kwargs : ApplicationCalled(fn, argv, kwargs)

SpecApp == InitApp /\ [][NextApp]_vars

\* protected functions of a running Qt application
InitProtect ==
    /\ InitRegVars
    /\ InitChainVars
    /\ qapp # <<>>
    /\ plugins = Build("Base", None, <<>>, NoOptions)
    /\ pygments = FALSE
    /\ InitFmtVars
    /\ InitProjVars
    /\ InitDlgVars

NextProtect ==
    \/ \E opt \in ProtectOptions, v \in Results : ProtectedReturns(opt, v)
    \/ \E opt \in ProtectOptions, e \in Errors \cup TangoErrors :
            ProtectedRaises(opt, e)
    \/ ProtectExecReturns
    \/ ProtectAccept
    \/ \E state \in BOOLEAN : ProtectSetCheckBoxState(state)
    \/ \E h \in ReportHandlers, accepted \in BOOLEAN, fault \in BOOLEAN :
            OnReportTriggered(h, accepted, fault)

SpecProtect == InitProtect /\ [][NextProtect]_vars

\* the two shared dialogs: uncaught errors handled by the message dialog
\* plugin, and errors of protected functions
InitDialogs ==
    /\ InitRegVars
    /\ InitChainVars
    /\ qapp # <<>>
    /\ plugins \in {Build("MessageDialog", None, <<>>, opt) : opt \in Options}
    /\ pygments = FALSE
    /\ InitFmtVars
    /\ InitProjVars
    /\ InitDlgVars

NextDialogs ==
    \/ \E e \in {x \in Errors \cup TangoErrors :
                    x.type = "DevFailed" => pytango} : Dispatch(e)
    \/ HandleMessageDialog
    \/ ReturnResult
    \/ \E state \in BOOLEAN : SetCheckBoxState(state)
    \/ Accept
    \/ \E opt \in {DefaultProtect, TitledProtect},
          e \in Errors \cup TangoErrors : ProtectedRaises(opt, e)
    \/ ProtectExecReturns
    \/ ProtectAccept
    \/ \E state \in BOOLEAN : ProtectSetCheckBoxState(state)

SpecDialogs == InitDialogs /\ [][NextDialogs]_vars

\* the two shared dialogs with their check boxes, the message dialog
\* plugin with and without a delegate
InitSuppress ==
    /\ InitRegVars
    /\ InitChainVars
    /\ qapp # <<>>
    /\ plugins \in {Build("MessageDialog", rt, <<>>, opt) :
                        rt \in {None, "Callable"}, opt \in Options}
    /\ pygments = FALSE
    /\ InitFmtVars
    /\ InitProjVars
    /\ InitDlgVars

NextSuppress ==
    \/ NextDialogs
    \/ CallTarget
    \/ \E v \in {"True", "None"} : CallableReturns(v)
    \/ CallableRaises

SpecSuppress == InitSuppress /\ [][NextSuppress]_vars


(***************************************************************************)
(* Properties of the plugin chain (Spec).                                  *)
(***************************************************************************)
Range(f) == {f[i] : i \in DOMAIN f}

Min(S) == CHOOSE x \in S : \A y \in S : x <= y

\* the dispatch is over
Finished == stack = <<>> /\ outcome.kind \in {"return", "raise"}

\* positions in the history of the events ev of plugin p
At(ev, p) == {i \in DOMAIN events : events[i].ev = ev /\ events[i].p = p}

\* the calls of the children of multiplexer m, and their returns, in order
ChildCalls(m) ==
    SelectSeq(events, LAMBDA x : x.ev = "call"
                                 /\ x.p \in Range(plugins[m].children))

ChildRets(m) ==
    SelectSeq(events, LAMBDA x : x.ev = "ret"
                                 /\ x.p \in Range(plugins[m].children))

\* C1: MultiplexExceptionPlugin.handle calls its children in list order with
\* the error triple it was given, calls no child after the first one that
\* returns a falsy result, returns False iff some child returned falsy, and
\* returns True, every child called exactly once, when all returned truthy
\* (so also for the empty list).
C1_MultiplexShortCircuit ==
    \A m \in DOMAIN plugins : plugins[m].kind = "Multiplex" =>
        LET ch    == plugins[m].children
            calls == ChildCalls(m)
            rets  == ChildRets(m)
        IN  /\ Len(calls) <= Len(ch)
            /\ \A k \in 1..Len(calls) :
                    /\ calls[k].p = ch[k]
                    /\ \A c \in At("call", m) : calls[k].args = events[c].args
            /\ Len(rets) <= Len(calls)
            /\ \A k \in 1..Len(rets) :
                    /\ rets[k].p = ch[k]
                    /\ ~Truthy(rets[k].val) => Len(calls) = k
            /\ Cardinality(At("handle", m)) <= 1
            /\ \A h \in At("handle", m) :
                    /\ events[h].val \in {"True", "False"}
                    /\ events[h].val = "False"
                         <=> \E k \in 1..Len(rets) : ~Truthy(rets[k].val)
                    /\ events[h].val = "True"
                         => Len(calls) = Len(ch) /\ Len(rets) = Len(ch)

\* a multiplexer with two children has returned False after its first child
\* returned None, without calling the second
C1_Witness ==
    /\ plugins[1].kind = "Multiplex"
    /\ Len(plugins[1].children) = 2
    /\ Len(ChildCalls(1)) = 1
    /\ Len(ChildRets(1)) = 1
    /\ ChildRets(1)[1].val = "None"
    /\ \E h \in At("handle", 1) : events[h].val = "False"

\* C2: when the handle of a plugin that has a target returns a falsy result,
\* the target is not called and the call returns that falsy result.
C2_FalsyHandleVetoesTarget ==
    \A h \in DOMAIN events :
        LET p == events[h].p IN
        (/\ events[h].ev = "handle"
         /\ ~Truthy(events[h].val)
         /\ plugins[p].target # 0) =>
            /\ At("call", plugins[p].target) = {}
            /\ \A r \in At("ret", p) :
                    /\ r > h
                    /\ events[r].val = events[h].val
                    /\ ~Truthy(events[r].val)
            /\ stack = <<>> => At("ret", p) # {}

\* a message dialog plugin with a target, its check box checked, has
\* returned None without calling the target
C2_Witness ==
    /\ Finished
    /\ plugins[1].kind = "MessageDialog"
    /\ plugins[1].target # 0
    /\ \E h \in At("handle", 1) : events[h].val = "None"
    /\ outcome = [kind |-> "return", val |-> "None"]
    /\ At("call", plugins[1].target) = {}

\* C3: when the handle of a plugin returns a truthy result and the plugin has
\* a target, the target is called exactly once, after handle, with the same
\* error triple, and the call returns what the target returned; a plugin
\* without a target returns the result of its handle.
C3_TruthyHandleCallsTarget ==
    \A h \in DOMAIN events : events[h].ev = "handle" =>
        LET p == events[h].p
            t == plugins[p].target
            pending == stack # <<>> /\ Top.p = p /\ Top.pc = "handled"
        IN  /\ (Truthy(events[h].val) /\ t # 0) =>
                /\ Cardinality(At("call", t)) <= 1
                /\ ~pending => Cardinality(At("call", t)) = 1
                /\ \A c \in At("call", t) :
                        c > h /\ events[c].args = events[h].args
                /\ \A r \in At("ret", p) :
                        /\ r - 1 \in At("ret", t)
                        /\ events[r].val = events[r - 1].val
                /\ \A r \in At("ret", t) : r + 1 \in At("ret", p)
            /\ t = 0 =>
                /\ \A r \in At("ret", p) : events[r].val = events[h].val
                /\ stack = <<>> => At("ret", p) # {}

\* a plugin whose handle returned 1 has called its target, which returned
\* None, and None is what the whole call returned
C3_Witness ==
    /\ Finished
    /\ plugins[1].target # 0
    /\ \E h \in At("handle", 1) : events[h].val = "1"
    /\ \E r \in At("ret", plugins[1].target) : events[r].val = "None"
    /\ outcome = [kind |-> "return", val |-> "None"]


\* the faults raised by the handle of a plugin in this dispatch
HandleFaults ==
    {i \in DOMAIN events : /\ events[i].ev = "raise"
                           /\ plugins[events[i].p].kind # "Callable"}

\* the fault notifications written to the standard error stream
FaultNotifications == {i \in DOMAIN stderr : stderr[i].what = "fault"}

\* C8: a fault raised by the handle of a plugin does not leave the chain: the
\* top-level call returns a boolean and the standard error stream receives
\* exactly one notification of the fault.
C8_FaultDoesNotPropagate ==
    HandleFaults # {} =>
        /\ outcome.kind # "raise"
        /\ stack = <<>> =>
                /\ outcome.kind = "return"
                /\ outcome.val \in {"True", "False"}
                /\ Cardinality(FaultNotifications) = 1

\* C9: after a fault in the handle of a plugin the chain goes on as if the
\* handle had returned True: the target of the plugin is called, and in a
\* multiplexer the child after a faulting child without target is called.
C9_FaultContinuesChain ==
    \A i \in HandleFaults :
        LET p == events[i].p IN
        stack = <<>> =>
            /\ plugins[p].target # 0 => At("call", plugins[p].target) # {}
            /\ \A m \in DOMAIN plugins :
                    \A k \in 1..(Len(plugins[m].children) - 1) :
                        (plugins[m].children[k] = p /\ plugins[p].target = 0)
                            => At("call", plugins[m].children[k + 1]) # {}

\* the chain is the message dialog plugin passing on to the default handler
DialogChain == plugins[1].kind = "MessageDialog" /\ plugins[1].target # 0

\* C10: an error dispatched to the message dialog plugin with the platform
\* default handler as its target ends in exactly one terminal action: the
\* dialog is shown or the default handler runs, not both and not neither.
C10_ExactlyOneTerminalAction ==
    (DialogChain /\ Finished) =>
        shown + Cardinality(At("call", plugins[1].target)) = 1

(***************************************************************************)
(* Properties of the formatter registry (SpecRegistry).                    *)
(***************************************************************************)
\* the registry after the first n registrations, each applied to the one
\* before: what registerErrorHandler is documented to maintain
RECURSIVE Registered(_)
Registered(n) ==
    IF n = 0 THEN getErrorFormatters
    ELSE DictSetItem(Registered(n - 1), registrations[n].key,
                     registrations[n].val)

\* the registered kinds that the queried kind is, in registration order
Matching(reg, kind) ==
    {i \in DOMAIN reg : kind # None /\ issubclass(kind, reg[i].key)}

\* C4: when two registered kinds are both ancestors-or-equal of the queried
\* kind, findErrorFormatter returns the formatter of the one registered
\* first, whichever is the more specific.
C4_FirstRegisteredWins ==
    LET reg == Registered(found.after)
        m   == Matching(reg, found.query)
    IN  Cardinality(m) >= 2 => found.result = reg[Min(m)].val

\* C5: the registry that findErrorFormatter reads holds, for every kind
\* registered so far, the formatter of the latest registration of that kind.
C5_RegistrationPersists ==
    \A i \in DOMAIN registrations :
        (\A j \in DOMAIN registrations :
            j > i => registrations[j].key # registrations[i].key)
        => \E n \in DOMAIN getErrorFormatters :
                getErrorFormatters[n] = registrations[i]

\* C6: findErrorFormatter of an error class that no kind in the registry it
\* reads is an ancestor-or-equal of returns BaseErrorFormatterPlugin.
C6_UnregisteredKindGetsDefault ==
    (/\ found.query # None
     /\ Matching(getErrorFormatters, found.query) = {})
        => found.result = "BaseErrorFormatterPlugin"

\* with PyTango's entry in the registry, the formatter of IndexError has been
\* looked up and is the default one
C6_Witness ==
    /\ getErrorFormatters # <<>>
    /\ found.query = "IndexError"
    /\ found.result = "BaseErrorFormatterPlugin"

\* C7: with formatter A registered for K1, and K2 a subclass of K1, the
\* formatter found for K2 is A; once B is registered for K2, it is B.
C7_RegistrationScenario ==
    \A K1 \in Kinds, K2 \in Kinds :
        (/\ K1 # K2 /\ issubclass(K2, K1)
         /\ found.query = K2
         /\ Len(registrations) >= found.after
         /\ found.after >= 1
         /\ registrations[1] = [key |-> K1, val |-> "FormatterA"]) =>
            /\ found.after = 1 => found.result = "FormatterA"
            /\ (/\ found.after = 2
                /\ registrations[2] = [key |-> K2, val |-> "FormatterB"])
                    => found.result = "FormatterB"


(***************************************************************************)
(* Properties of the error formatters (SpecFormat).                        *)
(***************************************************************************)
Traces == {"tb1", "tb2", "tb3"}

\* a text that is not empty and names no kind, no value and no trace
IsPlaceholder(text) ==
    /\ text # <<>>
    /\ \A i \in DOMAIN text :
            text[i] \notin Kinds \cup PlainValues \cup TangoValues \cup Traces
                            \cup {"Traceback (most recent call last):\n"}

\* C11: translateError(None, None, None) on the default formatter does not
\* raise; the title it returns is exactly "Unhandled Error", and the
\* summary, the detail and the origin are placeholder texts.
C11_NullTripleOnDefaultFormatter ==
    (/\ fmtcall.op = "translateError"
     /\ fmtcall.formatter = "BaseErrorFormatterPlugin"
     /\ fmtcall.exc_info = NoneTriple)
    => /\ ~fmtcall.raised
       /\ fmtcall.title = <<"Unhandled Error">>
       /\ IsPlaceholder(fmtcall.error)
       /\ IsPlaceholder(fmtcall.detailed)
       /\ IsPlaceholder(fmtcall.origin)

C11_Witness ==
    /\ fmtcall.op = "translateError"
    /\ fmtcall.formatter = "BaseErrorFormatterPlugin"
    /\ fmtcall.exc_info = NoneTriple
    /\ fmtcall.error = <<"None", "\n">>
    /\ Len(fmtcall.origin) > 1

\* C12: for every formatter, the default one and the Tango one, each of
\* toTitle, toErrorHtml, toDetailedErrorHtml and toOriginHtml called with a
\* null error value and a null trace returns a text and does not raise.
C12_ProducersTolerateNull ==
    (/\ fmtcall.op \in Producers
     /\ fmtcall.exc_info.value = None
     /\ fmtcall.exc_info.tb = None)
    => ~fmtcall.raised

\* C18: the default formatter's title is "Unhandled Error" for a null kind
\* and "Unhandled Error (<kind name>)" otherwise; its detail is the summary
\* inside one pre-formatted block; its origin is produced without failure
\* with and without the syntax highlighter, and without it the origin is
\* the full trace in a plain pre-formatted block under an empty style sheet.
C18_DefaultFormatterOutput ==
    fmtcall.formatter = "BaseErrorFormatterPlugin" =>
        LET e == fmtcall.exc_info
            summary == format_exception_only(e.type, e.value)
            trace == format_exception(e.type, e.value, e.tb)
        IN  /\ ~fmtcall.raised
            /\ fmtcall.op \in {"toTitle", "translateError"} =>
                    fmtcall.title = IF e.type = None
                                    THEN <<"Unhandled Error">>
                                    ELSE <<"Unhandled Error (", e.type, ")">>
            /\ fmtcall.op = "translateError" =>
                    fmtcall.detailed = <<"<html><body>", "<pre>">>
                        \o fmtcall.error \o <<"</pre>", "</body></html>">>
            /\ fmtcall.op = "toDetailedErrorHtml" =>
                    fmtcall.detailed = <<"<html><body>", "<pre>">>
                        \o summary \o <<"</pre>", "</body></html>">>
            /\ fmtcall.op \in {"toOriginHtml", "translateError"} =>
                    /\ fmtcall.origin # <<>>
                    /\ ~pygments =>
                          fmtcall.origin =
                            <<"<html><head><style type=\"text/css\">", "",
                              "</style></head><body>", "<pre>">>
                            \o trace \o <<"</pre>", "</body></html>">>

C18_Witness ==
    /\ fmtcall.op = "translateError"
    /\ fmtcall.formatter = "BaseErrorFormatterPlugin"
    /\ fmtcall.exc_info.type = "Exception"
    /\ fmtcall.exc_info.tb = "tb2"
    /\ ~pygments
    /\ fmtcall.title = <<"Unhandled Error (", "Exception", ")">>
    /\ fmtcall.origin[5] = "Traceback (most recent call last):\n"


C17_FormatterFaultContained ==
    \A i \in DOMAIN translations :
        /\ ~translations[i].raised
        /\ (i = Len(translations) /\ translations[i].result.raised)
           => /\ panel.title = Str(translations[i].exc_info.type)
              /\ panel.text = ValueStr(translations[i].exc_info.value)


Renders(box, e, title, msg) ==
    LET data == Translate(e) IN
    /\ box.exc_info = e
    /\ box.detailed = data.detailed
    /\ box.origin = data.origin
    /\ box.title = IF title # None THEN <<title>> ELSE data.title
    /\ box.text = IF msg # None THEN <<msg>> ELSE data.error

C16_DeliveryFaultWarned ==
    report.fault =>
        /\ Len(report.warnings) = 1
        /\ report.infos = <<>>
        /\ ~report.raised

\* C19: a wrapper made by protect with its default options returns what
\* the wrapped function returns, without displaying a dialog; when the
\* wrapped function raises, the wrapper displays the error dialog and
\* then returns None: no exception leaves it.
C19_ProtectDefault ==
    (wcall.opt = DefaultProtect /\ wcall.pc # "idle") =>
        /\ wcall.e = NoneTriple =>
                /\ wcall.kind = "return"
                /\ wcall.val \in Results
                /\ ~wcall.displayed
        /\ wcall.e # NoneTriple =>
                /\ wcall.displayed
                /\ wcall.pc = "done" =>
                        wcall.kind = "return" /\ wcall.val = None


(***************************************************************************)
(* Properties of the construction of a dialog (SpecConstruct).             *)
(***************************************************************************)
\* C21: an ErrorDialog built with no error arguments while an error is in
\* flight stores and renders that error, with the formatter found for its
\* kind; an error triple given explicitly is stored as it was given; and
\* when the value stored is None no formatter is looked up and nothing is
\* rendered.
C21_NullTripleMeansInFlight ==
    (built.called /\ ~built.raised) =>
        /\ (built.e = NoneTriple /\ built.inflight # NoneTriple)
           => /\ Renders(built.box, built.inflight, None, None)
              /\ built.resolved = <<findErrorFormatter(built.inflight.type)>>
        /\ built.e # NoneTriple => built.box.exc_info = built.e
        /\ built.box.exc_info.value = None
           => /\ built.resolved = <<>>
              /\ built.box.title = Str("")
              /\ built.box.text = Str("")


(***************************************************************************)
(* Properties of the wrappers built with re_throw (SpecProtect).           *)
(***************************************************************************)
\* C22: a wrapper built with re_throw=True ends every call in which the
\* wrapped function raised by raising to its caller, whatever the state of
\* the shared dialog, its check box included; unless the handling itself
\* raised, what it raises is the exception of the wrapped function.
C22_ReThrowAlways ==
    (wcall.pc = "done" /\ wcall.opt.re_throw /\ wcall.e # NoneTriple) =>
        /\ wcall.kind = "raise"
        /\ wcall.val # "fault" => wcall.val = wcall.e.value


(***************************************************************************)
(* Properties of the check boxes of the shared dialogs (SpecSuppress).     *)
(***************************************************************************)
\* a wrapper handles an error of its function, and the handling completes
ProtectHandles ==
    /\ nprotect' = nprotect + 1
    /\ wcall'.e # NoneTriple
    /\ wcall'.val # "fault"
    /\ PROTECT_ERROR_DIALOG # <<>>

\* handle of the message dialog plugin returns
PluginHandles ==
    /\ AtHandle("MessageDialog")
    /\ MSG_BOX # <<>>
    /\ Len(events') = Len(events) + 1
    /\ events'[Len(events')].ev = "handle"

C24_FanOutThenDelegate ==
    (plugins[1].kind = "Multiplex" /\ plugins[1].target # 0) =>
        LET ch   == plugins[1].children
            D    == plugins[1].target
            rets == ChildRets(1)
            allTruthy == /\ Len(rets) = Len(ch)
                         /\ \A k \in 1..Len(rets) : Truthy(rets[k].val)
        IN  /\ \A k \in DOMAIN ch : \A r \in At("ret", ch[k]) :
                    LET c == ch[k]
                        t == plugins[c].target
                    IN  IF plugins[c].kind = "Callable"
                        THEN At("handle", c) = {}
                        ELSE /\ Cardinality(At("handle", c)) = 1
                             /\ \A h \in At("handle", c) :
                                    IF Truthy(events[h].val) /\ t # 0
                                    THEN \E q \in At("ret", t) :
                                            /\ h < q
                                            /\ q < r
                                            /\ events[r].val = events[q].val
                                    ELSE /\ events[r].val = events[h].val
                                         /\ t # 0 => At("call", t) = {}
            /\ Cardinality(At("call", D)) <= 1
            /\ \A d \in At("call", D) :
                    /\ allTruthy
                    /\ \A i \in DOMAIN events :
                            events[i].p \notin {1, D} => i < d
            /\ (Finished /\ outcome.kind = "return")
               => /\ allTruthy <=> At("call", D) # {}
                  /\ IF allTruthy
                     THEN \E q \in At("ret", D) :
                            outcome.val = events[q].val
                     ELSE outcome.val = "False"

\* a multiplexer with a delegate and two children, the first of which has
\* a delegate of its own: both children returned truthy, the first what its
\* delegate returned, then D was called and its falsy result is the result
C24_Witness ==
    /\ plugins[1].kind = "Multiplex"
    /\ plugins[1].target # 0
    /\ Len(plugins[1].children) = 2
    /\ plugins[plugins[1].children[1]].target # 0
    /\ Finished
    /\ outcome = [kind |-> "return", val |-> "None"]
    /\ Len(ChildRets(1)) = 2
    /\ ChildRets(1)[1].val = "1"
    /\ \E q \in At("ret", plugins[plugins[1].children[1]].target) :
            events[q].val = "1"
    /\ ChildRets(1)[2].val = "True"
    /\ \E q \in At("ret", plugins[1].target) : events[q].val = "None"


(***************************************************************************)
(* Termination of a dispatch (SpecTerminates).                             *)
(***************************************************************************)
\* C25: the plugins of a chain form a tree, every plugin at one position;
\* a dispatch calls no plugin twice, no handle returns twice, and every
\* dispatch that has begun comes to its end, by a return or by an
\* exception.
C25_DispatchTerminates ==
    /\ [](\A p \in DOMAIN plugins :
            /\ Cardinality(At("call", p)) <= 1
            /\ Cardinality(At("handle", p)) <= 1)
    /\ (stack # <<>>) ~> Finished

\* the dispatch to a multiplexer with a delegate and two children that
\* have delegates is over, and every one of the six objects was called once
C25_Witness ==
    /\ plugins[1].kind = "Multiplex"
    /\ Len(plugins[1].children) = 2
    /\ Finished
    /\ \A p \in DOMAIN plugins : plugins[p].kind # None
    /\ \A p \in DOMAIN plugins : Cardinality(At("call", p)) = 1
    /\ Cardinality(At("handle", 1)) = 1


(***************************************************************************)
(* Properties of Project.create (SpecProject).                             *)
(***************************************************************************)
\* C26: a call of create in which _create fails raises and leaves the
\* project directories as the call found them: the directory the call made
\* is removed, and a project directory that existed before the call is
\* still there with its entries.
C26_CreateRollsBack ==
    pcall.called =>
        /\ pcall.raised
        /\ fs.dirs = pcall.before.dirs


====
